---- MODULE Spec2Model ----
(***************************************************************************)
(* RelationshipGraph (src/src/index.js): validation, parent grouping,      *)
(* row/index layout, label and block rendering on the d3 surface, and the  *)
(* tooltip event handlers.                                                 *)
(*                                                                         *)
(* Conventions.  A JavaScript value that may be undefined is a sequence of *)
(* length at most one: <<>> is undefined, <<v>> is the value v.  A number   *)
(* attribute that may be NaN is written the same way (<<>> is NaN).  A     *)
(* string is the sequence of its UTF-16 code units, so that the `<` of the *)
(* sort comparator and the key order of Object.keys can be computed.       *)
(***************************************************************************)
EXTENDS Integers, Sequences, FiniteSets, TLC

VARIABLES ctorArgs, config, tip, tipVisible, tipAttached, clientWidth,
          drawn, entered, gSize, svgSize, json, runs, result, cmc

vars == <<ctorArgs, config, tip, tipVisible, tipAttached, clientWidth,
          drawn, entered, gSize, svgSize, json, runs, result, cmc>>

\* ---------------------------------------------------------------- bounds
MaxRecords == 3
MaxDrawn == 5
MaxRuns == 2

\* ------------------------------------------------------ program constants
blockSize == 24
abbreviateLength == 25
fixedMargin == 75
canvasMargin == 15
initialSvgSize == 500
maxColor == 3
maxParentColor == 4

Undefined == <<>>
NaN == <<>>
Num(n) == <<n>>
Min(a, b) == IF a < b THEN a ELSE b

\* ---------------------------------------------------------------- strings
\* '...', '   (', ')   ', ' (', ')' and '    ' as code units.
Ellipsis == <<46, 46, 46>>
MeasurePrefix == <<32, 32, 32, 40>>
MeasureSuffix == <<41, 32, 32, 32>>
TextPrefix == <<32, 40>>
TextSuffix == <<41>>
MeasurePadding == <<32, 32, 32, 32>>

RECURSIVE NumToStr(_)
NumToStr(n) ==
    IF n < 10 THEN <<48 + n>>
    ELSE Append(NumToStr(n \div 10), 48 + (n % 10))

\* child1.parent < child2.parent on strings: code-unit lexicographic order.
StrLess(a, b) ==
    \E k \in 1..(Min(Len(a), Len(b)) + 1) :
        /\ \A i \in 1..(k - 1) : a[i] = b[i]
        /\ IF k <= Len(a) /\ k <= Len(b) THEN a[k] < b[k]
           ELSE k > Len(a) /\ k <= Len(b)

abbreviate(s) ==
    IF Len(s) >= abbreviateLength
    THEN SubSeq(s, 1, abbreviateLength) \o Ellipsis
    ELSE s

\* ------------------------------------------------------------ JS operators
Truthy(v) ==
    /\ v # Undefined
    /\ v[1] # FALSE

TruthyNum(v) ==
    /\ v # Undefined
    /\ v[1] # 0

\* a || b on optional booleans, optional numbers and optional strings.
JSOrBool(a, b) == IF Truthy(a) THEN a ELSE b
JSOrNum(a, b) == IF TruthyNum(a) THEN a ELSE b
JSOrStr(a, b) == IF a # Undefined THEN a ELSE b

\* Math.ceil(a / b) for integers a and b # 0.
Ceil(a, b) ==
    IF b > 0 THEN -((-a) \div b) ELSE -(a \div (-b))

\* ------------------------------------------------- integer-like object keys
IsDigits(key) == \A i \in 1..Len(key) : key[i] >= 48 /\ key[i] <= 57

RECURSIVE NumVal(_)
NumVal(key) ==
    IF Len(key) = 0 THEN 0
    ELSE 10 * NumVal(SubSeq(key, 1, Len(key) - 1)) + (key[Len(key)] - 48)

\* A canonical array index: decimal digits, no leading zero, below 2^32 - 1.
IsArrayIndex(key) ==
    /\ Len(key) >= 1
    /\ Len(key) <= 9
    /\ IsDigits(key)
    /\ (Len(key) > 1 => key[1] # 48)

\* An object is the sequence of its <<key, value>> properties in insertion
\* order.  Object.keys lists the array-index keys first, in ascending numeric
\* order, then the other string keys in insertion order.
RECURSIVE SelectKeys(_, _)
SelectKeys(obj, wantIndex) ==
    IF Len(obj) = 0 THEN <<>>
    ELSE LET rest == SelectKeys(Tail(obj), wantIndex)
             key == Head(obj)[1]
         IN IF IsArrayIndex(key) = wantIndex THEN <<key>> \o rest ELSE rest

RECURSIVE InsertByValue(_, _)
InsertByValue(keys, key) ==
    IF Len(keys) = 0 THEN <<key>>
    ELSE IF NumVal(key) < NumVal(Head(keys)) THEN <<key>> \o keys
    ELSE <<Head(keys)>> \o InsertByValue(Tail(keys), key)

RECURSIVE SortByValue(_)
SortByValue(keys) ==
    IF Len(keys) = 0 THEN <<>>
    ELSE InsertByValue(SortByValue(Tail(keys)), Head(keys))

ObjectKeys(obj) ==
    SortByValue(SelectKeys(obj, TRUE)) \o SelectKeys(obj, FALSE)

\* Object.keys(this).indexOf(key) > -1: the key is one of the object's keys,
\* whatever their order.
containsKey(obj, key) == \E i \in 1..Len(obj) : obj[i][1] = key

\* obj[key] for a key the object has.
GetProp(obj, key) ==
    LET i == CHOOSE j \in 1..Len(obj) : obj[j][1] = key IN obj[i][2]

\* ------------------------------------------------------------ the records
Name10 == <<49, 48>>
Name2 == <<50>>
NameA == <<97>>

Rec(id, parent, color, parentColor) ==
    [id |-> id, parent |-> parent, color |-> color, parentColor |-> parentColor]

ValidPool ==
    { Rec(1, <<Name10>>, <<0>>, <<0>>),
      Rec(2, <<Name2>>, <<1>>, <<4>>),
      Rec(3, <<Name2>>, <<3>>, <<1>>),
      Rec(4, <<NameA>>, <<2>>, <<2>>) }

InvalidPool ==
    { Rec(5, Undefined, <<0>>, <<0>>),
      Rec(6, <<NameA>>, Undefined, <<0>>),
      Rec(7, <<NameA>>, <<4>>, <<0>>),
      Rec(8, <<NameA>>, <<-1>>, <<0>>),
      Rec(9, <<NameA>>, <<0>>, Undefined),
      Rec(10, <<NameA>>, <<0>>, <<5>>),
      Rec(11, <<NameA>>, <<0>>, <<-1>>),
      Rec(12, Undefined, <<4>>, <<5>>) }

\* Arrays of distinct record objects of a pool, at most MaxRecords long.
ArraysOver(pool) ==
    UNION { { a \in [1..n -> pool] : \A i, j \in 1..n : i # j => a[i].id # a[j].id }
            : n \in 0..MaxRecords }

\* The argument of generate / verifyJson: undefined, or an array.
ValidInputs == { <<a>> : a \in ArraysOver(ValidPool) \ {<<>>} }

VerifyInputs == {Undefined} \cup { <<a>> : a \in ArraysOver(ValidPool \cup InvalidPool) }

FirstValid == CHOOSE r \in ValidPool : r.id = 1

GenerateInputs ==
    ValidInputs
    \cup {Undefined, <<(<<>>)>>}
    \cup { <<(<<r>>)>> : r \in InvalidPool }
    \cup { <<(<<FirstValid, r>>)>> : r \in {q \in InvalidPool : q.parent = Undefined} }

ShowTooltipsArgs == {Undefined, <<TRUE>>, <<FALSE>>}
MaxChildCountArgs == {Undefined, <<1>>}
ClientWidths == {50, 80, 123}

\* ------------------------------------------------------------- verifyJson
EmptyMessage == "JSON cannot be empty."
ParentMessage == "Child does not have a parent."
ColorMessage == "Child color is unsupported."
ParentColorMessage == "Parent color is unsupported."
Passed == "passed"

\* verifyElement without the parentColor branch.
verifyElementNoParentColor(element) ==
    IF element.parent = Undefined THEN ParentMessage
    ELSE IF \/ element.color = Undefined
            \/ element.color[1] > maxColor
            \/ element.color[1] < 0 THEN ColorMessage
    ELSE Passed

\* verifyElement without the parent branch.
verifyElementNoParent(element) ==
    IF \/ element.color = Undefined
       \/ element.color[1] > maxColor
       \/ element.color[1] < 0 THEN ColorMessage
    ELSE IF \/ element.parentColor = Undefined
            \/ element.parentColor[1] > maxParentColor
            \/ element.parentColor[1] < 0 THEN ParentColorMessage
    ELSE Passed

\* The body of the forEach callback: the message thrown for one element, or
\* Passed when the element throws nothing.
verifyElement(element) ==
    IF element.parent = Undefined THEN ParentMessage
    ELSE IF \/ element.color = Undefined
            \/ element.color[1] > maxColor
            \/ element.color[1] < 0 THEN ColorMessage
    ELSE IF \/ element.parentColor = Undefined
            \/ element.parentColor[1] > maxParentColor
            \/ element.parentColor[1] < 0 THEN ParentColorMessage
    ELSE Passed

RECURSIVE verifyEach(_)
verifyEach(array) ==
    IF Len(array) = 0 THEN Passed
    ELSE IF verifyElement(Head(array)) # Passed THEN verifyElement(Head(array))
    ELSE verifyEach(Tail(array))

\* The thrown message, or Passed when verifyJson returns true.
verifyJson(arg) ==
    IF arg = Undefined THEN EmptyMessage
    ELSE IF Len(arg[1]) = 0 THEN EmptyMessage
    ELSE verifyEach(arg[1])

\* ------------------------------------------------------------------- sort
compareParents(child1, child2) ==
    IF StrLess(child1.parent[1], child2.parent[1]) THEN -1
    ELSE IF StrLess(child2.parent[1], child1.parent[1]) THEN 1
    ELSE 0

\* The array left in the order it was passed.
SortOutcomesUnsorted(array) == {array}

\* Array.prototype.sort with the comparator: the array holds the same objects
\* in an order the comparator accepts.  The order of elements that compare
\* equal is left to the engine, so every such order is an outcome.  The
\* orders are built front to back from the positions not yet placed: the next
\* element is any one the comparator puts before or level with all the others.
RECURSIVE sortedOrders(_, _)
sortedOrders(array, left) ==
    IF left = {} THEN {<<>>}
    ELSE UNION { { <<array[m]>> \o rest : rest \in sortedOrders(array, left \ {m}) } :
                 m \in { k \in left :
                          \A j \in left : compareParents(array[k], array[j]) <= 0 } }

SortOutcomes(array) == sortedOrders(array, 1..Len(array))

\* ------------------------------------------------- parentSizes and parents
RECURSIVE countParents(_, _)
countParents(array, acc) ==
    IF Len(array) = 0 THEN acc
    ELSE LET parent == Head(array).parent[1]
             sizes == acc.parentSizes
         IN IF containsKey(sizes, parent)
            THEN countParents(Tail(array),
                   [acc EXCEPT !.parentSizes =
                      [i \in 1..Len(sizes) |->
                         IF sizes[i][1] = parent
                         THEN <<parent, sizes[i][2] + 1>> ELSE sizes[i]]])
            ELSE countParents(Tail(array),
                   [parentSizes |-> Append(sizes, <<parent, 1>>),
                    parents |-> Append(acc.parents, abbreviate(parent))])

GroupParents(array) == countParents(array, [parentSizes |-> <<>>, parents |-> <<>>])

\* The values parentSizes[Object.keys(parentSizes)[index]] for index = 0, 1, ...
\* as a sequence: the object does not change once the counting loop is over,
\* so every later lookup by position reads from it.
sizesByKeyOrder(parentSizes) ==
    LET keys == ObjectKeys(parentSizes)
    IN [k \in 1..Len(keys) |-> GetProp(parentSizes, keys[k])]

\* parentSizes[Object.keys(parentSizes)[index]], index counted from 0.
sizeAt(sizes, index) == sizes[index + 1]

RECURSIVE longestFrom(_, _, _, _)
longestFrom(parents, sizes, index, longest) ==
    IF index >= Len(parents) THEN longest
    ELSE LET current == parents[index + 1] \o MeasurePrefix
                         \o NumToStr(sizeAt(sizes, index)) \o MeasureSuffix
         IN longestFrom(parents, sizes, index + 1,
                        IF Len(current) > Len(longest) THEN current ELSE longest)

Longest(parents, sizes) == longestFrom(parents, sizes, 0, <<>>)

\* ctx.measureText(s).width for the fixed font: the text-measurement service
\* is outside the program; a width proportional to the length stands for it.
measureText(s) == Len(s) * 6

\* ---------------------------------------------------- calculatedMaxChildren
calculatedMaxChildren(cfg, width) ==
    IF cfg.maxChildCount = 0
    THEN (width - fixedMargin) \div blockSize
    ELSE cfg.maxChildCount

\* --------------------------------------------------------- row and index
Annotate(element, row, index) ==
    [id |-> element.id, parent |-> element.parent, color |-> element.color,
     parentColor |-> element.parentColor, row |-> row, index |-> index]

\* assignStep wrapping one column late.
assignStepLateWrap(st, element, maxChildren) ==
    LET parent == element.parent IN
    IF st.previousParent # Undefined /\ st.previousParent # parent
    THEN [row |-> st.row + 1, index |-> 2, previousParent |-> parent,
          out |-> Append(st.out, Annotate(element, st.row + 1, 1))]
    ELSE LET wrap == st.index = maxChildren + 2
             index == IF wrap THEN 1 ELSE st.index
             row == IF wrap THEN st.row + 1 ELSE st.row
         IN [row |-> row, index |-> index + 1, previousParent |-> parent,
             out |-> Append(st.out, Annotate(element, row, index))]

\* assignStep that does not open a row for a new parent.
assignStepSharedRow(st, element, maxChildren) ==
    LET parent == element.parent IN
    IF st.previousParent # Undefined /\ st.previousParent # parent
    THEN [row |-> st.row, index |-> 2, previousParent |-> parent,
          out |-> Append(st.out, Annotate(element, st.row, 1))]
    ELSE LET wrap == st.index = maxChildren + 1
             index == IF wrap THEN 1 ELSE st.index
             row == IF wrap THEN st.row + 1 ELSE st.row
         IN [row |-> row, index |-> index + 1, previousParent |-> parent,
             out |-> Append(st.out, Annotate(element, row, index))]

\* One iteration of the forEach over the sorted array on the loop state
\* st = [row, index, previousParent, out].
assignStep(st, element, maxChildren) ==
    LET parent == element.parent IN
    IF st.previousParent # Undefined /\ st.previousParent # parent
    THEN [row |-> st.row + 1, index |-> 2, previousParent |-> parent,
          out |-> Append(st.out, Annotate(element, st.row + 1, 1))]
    ELSE LET wrap == st.index = maxChildren + 1
             index == IF wrap THEN 1 ELSE st.index
             row == IF wrap THEN st.row + 1 ELSE st.row
         IN [row |-> row, index |-> index + 1, previousParent |-> parent,
             out |-> Append(st.out, Annotate(element, row, index))]

RECURSIVE assignFrom(_, _, _)
assignFrom(array, st, maxChildren) ==
    IF Len(array) = 0 THEN st.out
    ELSE assignFrom(Tail(array), assignStep(st, Head(array), maxChildren), maxChildren)

AssignRowIndex(array, maxChildren) ==
    assignFrom(array,
               [row |-> 1, index |-> 1, previousParent |-> Undefined, out |-> <<>>],
               maxChildren)

\* ------------------------------------------------------- the d3 data join
colors == <<"#abdda4", "#fdae61", "#d7191c", "#2b83ba">>

\* colors[i] for an optional number i: undefined outside the palette.
colorAt(i) ==
    IF i # Undefined /\ i[1] >= 0 /\ i[1] < Len(colors) THEN <<colors[i[1] + 1]>>
    ELSE Undefined

Element(tag, class, x, y, fill, text, datum) ==
    [tag |-> tag, class |-> class, x |-> x, y |-> y, fill |-> fill,
     text |-> text, datum |-> datum]

\* selectAll('.name'): the positions, in document order, of the elements of
\* the group whose class is name.
SelectAll(surface, name) ==
    LET F[k \in 0..Len(surface)] ==
          IF k = 0 THEN <<>>
          ELSE IF surface[k].class = name THEN Append(F[k - 1], k) ELSE F[k - 1]
    IN F[Len(surface)]

\* data(values) joins by index: values beyond the selection enter, selected
\* elements beyond the values exit.
EnterIndexes(selection, values) ==
    [k \in 1..(IF Len(values) > Len(selection) THEN Len(values) - Len(selection) ELSE 0)
       |-> Len(selection) + k - 1]

ExitPositions(selection, values) ==
    { selection[k] : k \in (Len(values) + 1)..Len(selection) }

RemovePositions(surface, positions) ==
    LET F[k \in 0..Len(surface)] ==
          IF k = 0 THEN <<>>
          ELSE IF k \in positions THEN F[k - 1] ELSE Append(F[k - 1], surface[k])
    IN F[Len(surface)]

\* ------------------------------------------------------------ parent labels
RECURSIVE previousParentSize(_, _, _)
previousParentSize(sizes, i, maxChildren) ==
    IF i < 0 THEN 0
    ELSE Ceil(sizeAt(sizes, i), maxChildren) * maxChildren
         + previousParentSize(sizes, i - 1, maxChildren)

\* The y attribute of the label with data index `index`.  With a zero
\* calculatedMaxChildren the quotient is Infinity and the product NaN.
labelY(sizes, index, maxChildren) ==
    IF index = 0 THEN Num(0)
    ELSE IF maxChildren = 0 THEN NaN
    ELSE Num(Ceil(previousParentSize(sizes, index - 1, maxChildren), maxChildren)
             * blockSize)

labelText(parents, sizes, index) ==
    parents[index + 1] \o TextPrefix \o NumToStr(sizeAt(sizes, index)) \o TextSuffix

\* A parent label is bound to a string, which has no parentColor.
labelFill == JSOrStr(colorAt(Undefined), colorAt(<<4>>))

EnterLabels(indexes, parents, sizes, maxChildren) ==
    [k \in 1..Len(indexes) |->
       Element("text", "relationshipGraph-Text", Num(0),
               labelY(sizes, indexes[k], maxChildren), labelFill,
               labelText(parents, sizes, indexes[k]),
               parents[indexes[k] + 1])]

\* maxHeight after the y callback ran on each entered label, in order.
RECURSIVE labelsMaxHeight(_, _)
labelsMaxHeight(labels, maxHeight) ==
    IF Len(labels) = 0 THEN maxHeight
    ELSE LET y == Head(labels).y
         IN labelsMaxHeight(Tail(labels),
              IF y # NaN /\ y[1] > maxHeight THEN y[1] ELSE maxHeight)

\* ------------------------------------------------------------ child blocks
blockX(obj, width) == width + ((obj.index - 1) * blockSize)
blockY(obj) == (obj.row - 1) * blockSize

EnterBlocks(indexes, array, width) ==
    [k \in 1..Len(indexes) |->
       LET obj == array[indexes[k] + 1]
       IN Element("rect", "relationshipGraph-block", Num(blockX(obj, width)),
                  Num(blockY(obj)), JSOrStr(colorAt(obj.color), colorAt(<<0>>)),
                  <<>>, <<obj.id>>)]

\* maxWidth += ((x + blockSize) > maxWidth) ? (x + blockSize) : 0
accumulate(extent, running) ==
    running + (IF extent > running THEN extent ELSE 0)

RECURSIVE blocksMaxWidth(_, _)
blocksMaxWidth(blocks, maxWidth) ==
    IF Len(blocks) = 0 THEN maxWidth
    ELSE blocksMaxWidth(Tail(blocks),
                        accumulate(Head(blocks).x[1] + blockSize, maxWidth))

RECURSIVE blocksMaxHeight(_, _)
blocksMaxHeight(blocks, maxHeight) ==
    IF Len(blocks) = 0 THEN maxHeight
    ELSE blocksMaxHeight(Tail(blocks),
                         accumulate(Head(blocks).y[1] + blockSize, maxHeight))

\* ------------------------------------------------------------- constructor
\* new RelationshipGraph(selection, showTooltips, maxChildCount, onClick) in a
\* container of some width.  `tip` is "tip" for a d3.tip object, "null" for
\* none; the svg element keeps its size attributes, `gSize` holds the width
\* and height attributes of the group this.svg refers to.
Construct(showTooltips, maxChildCount, width) ==
    /\ ctorArgs = [showTooltips |-> showTooltips, maxChildCount |-> maxChildCount]
    /\ config = [blockSize |-> blockSize,
                 showTooltips |-> JSOrBool(showTooltips, <<TRUE>>)[1],
                 maxChildCount |-> JSOrNum(maxChildCount, <<0>>)[1]]
    /\ tip = IF JSOrBool(showTooltips, <<TRUE>>)[1] THEN "tip" ELSE "null"
    /\ tipVisible = FALSE
    /\ tipAttached = FALSE
    /\ clientWidth = width
    /\ drawn = <<>>
    /\ entered = <<>>
    /\ gSize = Undefined
    /\ svgSize = <<initialSvgSize, initialSvgSize>>
    /\ runs = <<>>
    /\ result = "idle"
    /\ cmc = 0

Init ==
    \E showTooltips \in ShowTooltipsArgs, maxChildCount \in MaxChildCountArgs,
       width \in ClientWidths :
        /\ Construct(showTooltips, maxChildCount, width)
        /\ json = Undefined

\* ---------------------------------------------------------------- generate
\* The statements after verifyJson passed, for one outcome of the sort.
\* Each local of the function is bound once, in the order the code computes it.
Render(sorted) ==
    \E groups \in {GroupParents(sorted)} :
    \E sizes \in {sizesByKeyOrder(groups.parentSizes)} :
    \E maxChildren \in {calculatedMaxChildren(config, clientWidth)} :
    \E annotated \in {AssignRowIndex(sorted, maxChildren)} :
    \E labels \in {EnterLabels(EnterIndexes(SelectAll(drawn, "row"), groups.parents),
                              groups.parents, sizes, maxChildren)} :
    \E width \in {measureText(Longest(groups.parents, sizes) \o MeasurePadding)} :
    \E children \in {SelectAll(drawn, "child")} :
    \E blocks \in {EnterBlocks(EnterIndexes(children, annotated), annotated, width)} :
       /\ drawn' = RemovePositions(drawn \o labels \o blocks,
                                    ExitPositions(children, annotated))
       /\ entered' = labels \o blocks
       /\ tipAttached' = (config.showTooltips \/ tipAttached)
       /\ gSize' = <<blocksMaxWidth(blocks, 0) + canvasMargin,
                     blocksMaxHeight(blocks, labelsMaxHeight(labels, 0)) + canvasMargin>>
       /\ json' = <<annotated>>
       /\ runs' = Append(runs, annotated)
       /\ result' = "returned"
       /\ cmc' = maxChildren
       /\ UNCHANGED <<ctorArgs, config, tip, tipVisible, clientWidth, svgSize>>

generate(arg) ==
    IF verifyJson(arg) # Passed
    THEN /\ json' = arg
         /\ result' = verifyJson(arg)
         /\ UNCHANGED <<ctorArgs, config, tip, tipVisible, tipAttached, clientWidth,
                        drawn, entered, gSize, svgSize, runs, cmc>>
    ELSE \E sorted \in SortOutcomes(arg[1]) : Render(sorted)

\* A direct call of the validator on the caller's array.
VerifyCall ==
    /\ result = "idle"
    /\ result' = verifyJson(json)
    /\ UNCHANGED <<ctorArgs, config, tip, tipVisible, tipAttached, clientWidth,
                   drawn, entered, gSize, svgSize, json, runs, cmc>>

\* ------------------------------------------------------------------ events
IsBlock(k) == k \in 1..Len(drawn) /\ drawn[k].tag = "rect"

\* mouseover: that.tip ? that.tip.show : noop
MouseOver(k) ==
    /\ IsBlock(k)
    /\ tipVisible' = (IF tip # "null" THEN TRUE ELSE tipVisible)
    /\ UNCHANGED <<ctorArgs, config, tip, tipAttached, clientWidth, drawn, entered,
                   gSize, svgSize, json, runs, result, cmc>>

\* mouseout: that.tip ? that.tip.hide : noop
MouseOut(k) ==
    /\ IsBlock(k)
    /\ tipVisible' = (IF tip # "null" THEN FALSE ELSE tipVisible)
    /\ UNCHANGED <<ctorArgs, config, tip, tipAttached, clientWidth, drawn, entered,
                   gSize, svgSize, json, runs, result, cmc>>

\* click: that.tip.hide(), then config.onClick(obj), the caller's callback.
\* Without a tip object the first statement throws and nothing changes.
Click(k) ==
    /\ IsBlock(k)
    /\ tipVisible' = (IF tip # "null" THEN FALSE ELSE tipVisible)
    /\ UNCHANGED <<ctorArgs, config, tip, tipAttached, clientWidth, drawn, entered,
                   gSize, svgSize, json, runs, result, cmc>>

\* ---------------------------------------------------------- specifications
\* The number of elements a call would add to an empty selection.
Entering(arg) ==
    IF verifyJson(arg) # Passed THEN 0
    ELSE Len(arg[1]) + Cardinality({ arg[1][i].parent : i \in 1..Len(arg[1]) })

GenerateStep ==
    \E arg \in GenerateInputs :
        /\ Len(drawn) + Entering(arg) <= MaxDrawn
        /\ generate(arg)

MouseOverStep == \E k \in 1..Len(drawn) : MouseOver(k)
MouseOutStep == \E k \in 1..Len(drawn) : MouseOut(k)
ClickStep == \E k \in 1..Len(drawn) : Click(k)

Next == GenerateStep \/ MouseOverStep \/ MouseOutStep \/ ClickStep

Spec == Init /\ [][Next]_vars

\* Calls of generate alone, on valid arrays, at most MaxRuns of them, on a
\* graph constructed with the default tooltip setting.
InitLayout ==
    \E maxChildCount \in MaxChildCountArgs, width \in ClientWidths :
        /\ Construct(Undefined, maxChildCount, width)
        /\ json = Undefined

LayoutStep ==
    \E arg \in ValidInputs :
        /\ Len(runs) < MaxRuns
        /\ generate(arg)

NextLayout == LayoutStep

SpecLayout == InitLayout /\ [][NextLayout]_vars

\* The validator alone: a new graph, the caller holding any array of records.
InitVerify ==
    \E width \in ClientWidths :
        /\ Construct(Undefined, Undefined, width)
        /\ json \in VerifyInputs

NextVerify == VerifyCall

SpecVerify == InitVerify /\ [][NextVerify]_vars

\* ============================================================== properties
\* What the specification calls an input that fails validation.
RecordLacksParent(r) == r.parent = Undefined
RecordColorBad(r) == r.color = Undefined \/ r.color[1] < 0 \/ r.color[1] > 3
RecordParentColorBad(r) ==
    r.parentColor = Undefined \/ r.parentColor[1] < 0 \/ r.parentColor[1] > 4
RecordBad(r) == RecordLacksParent(r) \/ RecordColorBad(r) \/ RecordParentColorBad(r)

FailsValidation(arg) ==
    \/ arg = Undefined
    \/ Len(arg[1]) = 0
    \/ \E i \in 1..Len(arg[1]) : RecordBad(arg[1][i])

IsError(r) == r \in {EmptyMessage, ParentMessage, ColorMessage, ParentColorMessage}

\* The data bound to the blocks on the surface, in document order.
BlockIds(surface) ==
    LET F[k \in 0..Len(surface)] ==
          IF k = 0 THEN <<>>
          ELSE IF surface[k].tag = "rect" THEN Append(F[k - 1], surface[k].datum[1])
          ELSE F[k - 1]
    IN F[Len(surface)]

Labels(surface) ==
    LET F[k \in 0..Len(surface)] ==
          IF k = 0 THEN <<>>
          ELSE IF surface[k].tag = "text" THEN Append(F[k - 1], surface[k]) ELSE F[k - 1]
    IN F[Len(surface)]

Blocks(surface) ==
    LET F[k \in 0..Len(surface)] ==
          IF k = 0 THEN <<>>
          ELSE IF surface[k].tag = "rect" THEN Append(F[k - 1], surface[k]) ELSE F[k - 1]
    IN F[Len(surface)]

Ids(array) == { array[i].id : i \in 1..Len(array) }

\* C1: after a generate call returns, the blocks on the surface are exactly
\* one block per record of the array just passed: blocks of earlier calls are
\* gone and no record is drawn twice.
C1_BlocksAreTheLastRecords ==
    result = "returned" =>
        /\ Len(BlockIds(drawn)) = Len(json[1])
        /\ { BlockIds(drawn)[i] : i \in 1..Len(BlockIds(drawn)) } = Ids(json[1])

\* C2: a generate call whose argument fails validation raises an error and
\* leaves the drawn labels and blocks and the canvas size as they were.
C2_FailedValidationDrawsNothing ==
    [][ (FailsValidation(json') /\ (json' # json \/ result' # result))
        => /\ IsError(result')
           /\ drawn' = drawn
           /\ gSize' = gSize
           /\ svgSize' = svgSize ]_vars

C2_Witness ==
    /\ result = ParentColorMessage
    /\ Len(drawn) > 0
    /\ gSize # Undefined
    /\ FailsValidation(json)

\* C3 as stated: verify fails with the missing-parent error for every
\* non-empty array in which some record lacks a parent.
C3_AnyMissingParentIsReported ==
    (/\ result # "idle"
     /\ json # Undefined
     /\ \E i \in 1..Len(json[1]) : RecordLacksParent(json[1][i]))
    => result = ParentMessage

\* C3 amended: verify fails for every non-empty array in which some record
\* lacks a parent, and the error is the missing-parent error when no record
\* before the first parent-less one has a bad color or parentColor.
C3_FirstOffenderIsReported ==
    (/\ result # "idle"
     /\ json # Undefined)
    => \A i \in 1..Len(json[1]) :
          RecordLacksParent(json[1][i])
          => /\ IsError(result)
             /\ (\A j \in 1..(i - 1) : ~RecordBad(json[1][j])) => result = ParentMessage

C3_Witness ==
    /\ result = ParentMessage
    /\ json # Undefined
    /\ Len(json[1]) = 3
    /\ ~RecordBad(json[1][1])
    /\ ~RecordBad(json[1][2])
    /\ RecordLacksParent(json[1][3])

\* C4: with calculatedMaxChildren >= 1, after the layout pass every record
\* has row >= 1 and 1 <= index <= calculatedMaxChildren.
C4_RowAndIndexInRange ==
    (result = "returned" /\ cmc >= 1)
    => \A i \in 1..Len(json[1]) :
          /\ json[1][i].row >= 1
          /\ json[1][i].index >= 1
          /\ json[1][i].index <= cmc

\* A second record of a parent wrapped to a new row under a limit of one.
C4_Witness ==
    /\ result = "returned"
    /\ cmc = 1
    /\ \E i \in 2..Len(json[1]) :
          /\ json[1][i].parent = json[1][i - 1].parent
          /\ json[1][i].row = json[1][i - 1].row + 1
          /\ json[1][i].index = 1

RowsOf(array, parent) == { array[i].row : i \in { k \in 1..Len(array) : array[k].parent = parent } }

\* C5: after the layout pass no two records of a parent share a (row, index)
\* pair, the rows of a parent form a contiguous range, and no row holds
\* records of two parents.
C5_GridIsWellFormed ==
    result = "returned"
    => LET array == json[1] IN
       /\ \A i, j \in 1..Len(array) :
             (i # j /\ array[i].parent = array[j].parent)
             => <<array[i].row, array[i].index>> # <<array[j].row, array[j].index>>
       /\ \A i, j \in 1..Len(array) :
             array[i].parent = array[j].parent
             => \A r \in array[i].row..array[j].row : r \in RowsOf(array, array[i].parent)
       /\ \A i, j \in 1..Len(array) :
             array[i].row = array[j].row => array[i].parent = array[j].parent

\* Two parents, one of them on two rows.
C5_Witness ==
    /\ result = "returned"
    /\ Len(json[1]) = 3
    /\ \E i, j \in 1..3 : json[1][i].parent # json[1][j].parent
    /\ \E i \in 1..3 : Cardinality(RowsOf(json[1], json[1][i].parent)) = 2

PositionOf(array, id) ==
    LET i == CHOOSE k \in 1..Len(array) : array[k].id = id
    IN <<array[i].row, array[i].index>>

PositionsOf(array, parent) ==
    { <<array[i].row, array[i].index>> : i \in { k \in 1..Len(array) : array[k].parent = parent } }

\* C6 as stated: two layout runs of the same set of records give every
\* record the same (row, index).
C6_SameSetSamePositions ==
    \A a, b \in 1..Len(runs) :
        Ids(runs[a]) = Ids(runs[b])
        => \A id \in Ids(runs[a]) : PositionOf(runs[a], id) = PositionOf(runs[b], id)

\* C6 amended: two layout runs of the same set of records fill the same
\* (row, index) cells for every parent; records of one parent may exchange
\* cells between the runs.
C6_SameSetSameCells ==
    \A a, b \in 1..Len(runs) :
        Ids(runs[a]) = Ids(runs[b])
        => \A i \in 1..Len(runs[a]) :
              PositionsOf(runs[a], runs[a][i].parent) = PositionsOf(runs[b], runs[a][i].parent)

\* Two runs of one set of records of two parents that ordered it differently.
C6_Witness ==
    /\ Len(runs) = 2
    /\ Ids(runs[1]) = Ids(runs[2])
    /\ Len(runs[1]) = 3
    /\ \E i, j \in 1..3 : runs[1][i].parent # runs[1][j].parent
    /\ \E id \in Ids(runs[1]) : PositionOf(runs[1], id) # PositionOf(runs[2], id)

\* C7: a graph constructed with showTooltips = false never shows the tooltip.
C7_DisabledTooltipStaysHidden ==
    ctorArgs.showTooltips = <<FALSE>> => ~tipVisible

InvalidLayoutMessage == "InvalidLayoutConfigError"

\* C8: with calculatedMaxChildren below 1, generate on records the validator
\* accepts fails with the invalid-layout error.
C8_DegenerateLimitIsRejected ==
    (/\ result # "idle"
     /\ ~FailsValidation(json)
     /\ calculatedMaxChildren(config, clientWidth) < 1)
    => result = InvalidLayoutMessage

MaxOf(S) == CHOOSE m \in S : \A n \in S : n <= m

\* C9: after generate on a new graph the canvas is as wide as the rightmost
\* block edge plus the margin and as high as the lowest block edge or label
\* position plus the margin.
C9_CanvasFitsTheDrawing ==
    (result = "returned" /\ Len(runs) = 1 /\ cmc >= 1)
    => LET blocks == Blocks(drawn)
           labels == Labels(drawn)
           rights == { blocks[i].x[1] + blockSize : i \in 1..Len(blocks) }
           bottoms == { blocks[i].y[1] + blockSize : i \in 1..Len(blocks) }
                      \cup { labels[i].y[1] : i \in 1..Len(labels) }
       IN gSize = <<MaxOf(rights) + canvasMargin, MaxOf(bottoms) + canvasMargin>>

\* The parents of an array in order of first appearance.
RECURSIVE DisplayOrder(_, _)
DisplayOrder(array, seen) ==
    IF Len(array) = 0 THEN seen
    ELSE IF \E k \in 1..Len(seen) : seen[k] = Head(array).parent[1]
         THEN DisplayOrder(Tail(array), seen)
         ELSE DisplayOrder(Tail(array), Append(seen, Head(array).parent[1]))

FirstRowOf(array, parent) ==
    array[CHOOSE i \in 1..Len(array) :
            /\ array[i].parent[1] = parent
            /\ \A j \in 1..(i - 1) : array[j].parent[1] # parent].row

\* C10: with calculatedMaxChildren >= 1, the label of the k-th parent in
\* display order sits at the height of that parent's first row of blocks.
C10_LabelsAlignWithFirstRows ==
    (result = "returned" /\ cmc >= 1)
    => LET labels == Labels(entered)
           order == DisplayOrder(json[1], <<>>)
       IN /\ Len(labels) = Len(order)
          /\ \A k \in 1..Len(labels) :
                labels[k].y = Num((FirstRowOf(json[1], order[k]) - 1) * blockSize)
====
